---------------------------- MODULE Spec2Model ----------------------------
(***************************************************************************)
(* koanf-paramstore: the ParamStore provider of src/paramstore.go.         *)
(*                                                                         *)
(* The provider holds a request (ps.input, with the pagination cursor      *)
(* NextToken), the last-known snapshot (ps.params) and a key transform     *)
(* (ps.cb).  Read runs on the caller's goroutine; Watch starts one         *)
(* goroutine that runs a tick per timer fire.  Neither takes a lock, so    *)
(* the model steps both at the granularity of their accesses to the        *)
(* shared fields: one step per page call, one per cursor write, one per    *)
(* read or write of ps.params.  (Go gives no meaning to a torn read of a   *)
(* slice header under a race; the model lets a racing read see the value   *)
(* before or the value after a write, the outcomes every build shares.)    *)
(*                                                                         *)
(* A provider is built by Provider, which fills in the defaults of the     *)
(* Config, or by ProviderWithClient, which keeps the Config as passed.     *)
(* ReadBytes is the third operation; it only returns an error.             *)
(*                                                                         *)
(* The remote store is the collaborator behind client.GetParametersByPath: *)
(* a listing of parameters in a fixed order, served PageSize at a time,    *)
(* which other writers change at any moment, also in the middle of a       *)
(* pagination pass.                                                        *)
(***************************************************************************)
EXTENDS Integers, Sequences, FiniteSets, TLC

\* ------------------------------------------------------------- bounds
\* Highest version the store assigns to a parameter.
MaxVersion == 2
\* Records the store returns per page call.
PageSize == 1
\* Page calls one pagination pass may issue before the model stops it.
MaxCalls == 2
\* Records of a fetched snapshot whose keys are built in isolation (KeySpec).
MaxRecords == 3

\* ---------------------------------------------------------- vocabulary
\* The stable identities (types.Parameter.ARN), in the store's listing order.
ArnOrder == <<"arn:a", "arn:b">>
ARNs == {ArnOrder[i] : i \in 1..Len(ArnOrder)}
\* The parameter other writers overwrite but never delete; the other one is
\* created, overwritten and deleted.
Permanent == "arn:a"
\* types.Parameter.Name of each identity.
NameOf(a) == IF a = "arn:a" THEN "/app/a" ELSE "/app/b"

\* A nil *string (Path of the zero-valued ssm.GetParametersByPathInput).
NilPath == "<nil>"
\* A nil NextToken; the store's tokens are the positive offsets of its listing.
NoToken == 0
\* A nil error.
NoErr == "<nil>"
ErrNoPath == "no parameter path provided"
ErrEmptyKey == "transformed key is empty"
\* Any error of client.GetParametersByPath.
ErrRetrieval == "retrieval error"
ErrReadBytes == "paramstore provider does not support ReadBytes method"

\* The key transforms a caller may pass as cb: none (nil), and one that
\* strips the path prefix but sends "/app/b" to the empty string.
Transforms == {"nil", "blank"}
\* One more transform, for the key building taken in isolation: it sends
\* "/app/a" to the empty string and keeps the last element of other names.
KeyTransforms == Transforms \cup {"blankfirst"}

\* Line 51: the delimiter Provider sets when the caller's is empty.
DefaultDelimiter == "/"
\* Line 57: the interval Provider sets when the caller's is zero, in seconds.
DefaultInterval == 600

\* The Config values callers pass: the path unset or a prefix of the store,
\* the delimiter and the interval unset or set, the interval also negative.
RawConfigs ==
  { [Path |-> "/app", WithDecryption |-> TRUE,  Delimiter |-> "",  WatchInterval |-> 0],
    [Path |-> "",     WithDecryption |-> FALSE, Delimiter |-> ".", WatchInterval |-> 30],
    [Path |-> "/app", WithDecryption |-> FALSE, Delimiter |-> ".", WatchInterval |-> -1] }

\* Lines 37-75: Provider fills in the delimiter and the interval, and keeps
\* the rest.  (When the SDK's default configuration fails to load Provider
\* returns nil, and there is no provider to model.)
Provider(c) ==
  [c EXCEPT !.Delimiter = IF @ = "" THEN DefaultDelimiter ELSE @,
            !.WatchInterval = IF @ = 0 THEN DefaultInterval ELSE @]

\* Lines 77-79: ProviderWithClient keeps the Config as the caller passed it.
ProviderWithClient(c) == c

\* The configurations a provider is constructed with.
Configs == {Provider(c) : c \in RawConfigs} \cup {ProviderWithClient(c) : c \in RawConfigs}

VARIABLES
  config,    \* ps.config: [Path, WithDecryption, Delimiter, WatchInterval]
  cb,        \* ps.cb, the key transform
  store,     \* the remote store: identity -> version, 0 when absent
  input,     \* ps.input: [Path, WithDecryption, NextToken]
  params,    \* ps.params, the last-known snapshot
  rpc,       \* Read: "idle" | "call" | "append" | "finish"
  rparams,   \* Read's local params
  rresult,   \* Read's local result of the last page call
  rcalls,    \* the page calls of the Read in progress: [sent, ret, ok]
  rret,      \* what the last Read returned: [called, nilmap, mp, err]
  rdirty,    \* the store was written since the Read in progress began
  rleft,     \* while no Watch loop was started: the cursor that the last
             \* Read to pass its path check found in the request
  bret,      \* what ReadBytes returned, when it was the caller's last
             \* call: [called, nilbytes, err]
  wpc,       \* Watch: "idle" | "wait" | "call" | "append" | "diff", or
             \* "panic": the goroutine panicked and took the process down
  wparams,   \* the tick's local params
  wresult,   \* the tick's local result of the last page call
  wupdated,  \* the tick's local updatedParams
  wi,        \* the outer index of the tick's update check
  wcalls,    \* the page calls of the tick in progress: [sent, ret, ok]
  wmixed,    \* ps.params was replaced while the tick's update check ran
  cbLog,     \* the callback invocations of the current (or last) tick
  lastSnap   \* [ok, snap, clean]: snap is what the last completed tick
             \* fetched, when ok: the tick succeeded and no Read has run
             \* since that tick began; clean: no Read has run since the
             \* tick in progress began

vars == <<config, cb, store, input, params, rpc, rparams, rresult, rcalls,
          rret, rdirty, rleft, bret, wpc, wparams, wresult, wupdated, wi,
          wcalls, wmixed, cbLog, lastSnap>>

readVars == <<rpc, rparams, rresult, rcalls, rret, bret>>
watchVars == <<wpc, wparams, wresult, wupdated, wi, wcalls, cbLog>>

\* ------------------------------------------------------------- helpers
Min(a, b) == IF a < b THEN a ELSE b
Range(s) == {s[i] : i \in 1..Len(s)}

\* A types.Parameter.
Param(a, v) == [ARN |-> a, Name |-> NameOf(a), Version |-> v, Value |-> <<a, v>>]

\* The store's listing: its present parameters in listing order.
RECURSIVE ListFrom(_, _)
ListFrom(s, i) ==
  IF i > Len(ArnOrder) THEN <<>>
  ELSE (IF s[ArnOrder[i]] = 0 THEN <<>> ELSE <<Param(ArnOrder[i], s[ArnOrder[i]])>>)
       \o ListFrom(s, i + 1)
Listing(s) == ListFrom(s, 1)

\* One successful GetParametersByPath response for cursor tok.
FetchPage(s, tok) ==
  LET l == Listing(s) IN
  [Parameters |-> SubSeq(l, tok + 1, Min(tok + PageSize, Len(l))),
   NextToken  |-> IF tok + PageSize < Len(l) THEN tok + PageSize ELSE NoToken]

\* The number of page calls a full pass over s takes.
NumPages(s) ==
  LET n == Len(Listing(s)) IN
  IF n = 0 THEN 1 ELSE (n + PageSize - 1) \div PageSize

NoResult == [Parameters |-> <<>>, NextToken |-> NoToken]
\* A *bool: nil, or the address of a flag that holds b.
NilFlag == [nil |-> TRUE, val |-> FALSE]
FlagPtr(b) == [nil |-> FALSE, val |-> b]
ZeroInput == [Path |-> NilPath, WithDecryption |-> NilFlag, NextToken |-> NoToken]
\* Lines 88-91: the request Read builds from the configuration c.
Request(c) ==
  [Path |-> c.Path, WithDecryption |-> FlagPtr(c.WithDecryption), NextToken |-> NoToken]
NoPrev == [ok |-> FALSE, snap |-> <<>>, clean |-> FALSE]
\* The process has not been ended by a panic.
Running == wpc # "panic"


\* ------------------------------------------------- Read: lines 81-134
\* ps.cb applied to a parameter name (the caller's transform).
ApplyCb(t, name) ==
  CASE t = "blank"      -> (IF name = "/app/a" THEN "a" ELSE "")
    [] t = "blankfirst" -> (IF name = "/app/a" THEN "" ELSE "b")
    [] OTHER            -> name

\* Lines 118-123: the key of a record, transformed when ps.cb is not nil.
Key(t, name) == IF t # "nil" THEN ApplyCb(t, name) ELSE name

\* Line 130: mp[key] = param.Value (a later record overwrites an earlier one).
Put(mp, k, v) == [x \in (DOMAIN mp) \cup {k} |-> IF x = k THEN v ELSE mp[x]]

\* Lines 115-133: the loop that fills mp from record i on.  The result is
\* the flat mapping handed to maps.Unflatten (the nesting utility is a
\* collaborator and is not modelled), or the empty-key error.
\* Mutant: a record whose key is empty is skipped, and the rest is returned.
RECURSIVE MaterializeSkipEmpty(_, _, _, _)
MaterializeSkipEmpty(t, ps, i, mp) ==
  IF i > Len(ps) THEN [called |-> TRUE, nilmap |-> FALSE, mp |-> mp, err |-> NoErr]
  ELSE LET key == Key(t, ps[i].Name) IN
       IF key = ""
       THEN MaterializeSkipEmpty(t, ps, i + 1, mp)
       ELSE MaterializeSkipEmpty(t, ps, i + 1, Put(mp, key, ps[i].Value))

RECURSIVE Materialize(_, _, _, _)
Materialize(t, ps, i, mp) ==
  IF i > Len(ps) THEN [called |-> TRUE, nilmap |-> FALSE, mp |-> mp, err |-> NoErr]
  ELSE LET key == Key(t, ps[i].Name) IN
       IF key = ""
       THEN [called |-> TRUE, nilmap |-> TRUE, mp |-> <<>>, err |-> ErrEmptyKey]
       ELSE Materialize(t, ps, i + 1, Put(mp, key, ps[i].Value))

NoRet == [called |-> FALSE, nilmap |-> TRUE, mp |-> <<>>, err |-> NoErr]
NoBytesRet == [called |-> FALSE, nilbytes |-> TRUE, err |-> NoErr]
ErrRet(e) == [called |-> TRUE, nilmap |-> TRUE, mp |-> <<>>, err |-> e]

\* Mutant: the path check is missing, and Read goes on with the empty path.
ReadNoPathProceed ==
  /\ config.Path = ""
  /\ input' = Request(config)
  /\ rret' = NoRet
  /\ rpc' = "call"
  /\ UNCHANGED <<rparams, rresult, rcalls, rdirty, rleft, lastSnap>>

\* Lines 82-85: the path check; Read returns before it touches anything.
ReadNoPath ==
  /\ config.Path = ""
  /\ rret' = ErrRet(ErrNoPath)
  /\ UNCHANGED <<rpc, rparams, rresult, rcalls, input, rdirty, rleft, lastSnap>>

\* Mutant: the request is rebuilt around the cursor it held.
ReadSetInputKeepCursor ==
  /\ config.Path # ""
  /\ input' = [Request(config) EXCEPT !.NextToken = input.NextToken]
  /\ rparams' = <<>>
  /\ rresult' = NoResult
  /\ rcalls' = <<>>
  /\ rret' = NoRet
  /\ rdirty' = FALSE
  /\ rleft' = IF wpc = "idle" THEN input.NextToken ELSE NoToken
  /\ rpc' = "call"
  /\ lastSnap' = NoPrev

\* Lines 87-94: the request is rebuilt (its NextToken is nil again) and the
\* local params starts empty.
ReadSetInput ==
  /\ config.Path # ""
  /\ input' = Request(config)
  /\ rparams' = <<>>
  /\ rresult' = NoResult
  /\ rcalls' = <<>>
  /\ rret' = NoRet
  /\ rdirty' = FALSE
  /\ rleft' = IF wpc = "idle" THEN input.NextToken ELSE NoToken
  /\ rpc' = "call"
  /\ lastSnap' = NoPrev

ReadStart ==
  /\ Running
  /\ rpc = "idle"
  /\ (ReadNoPath \/ ReadSetInput)
  /\ bret' = NoBytesRet
  /\ UNCHANGED <<config, cb, store, params, watchVars, wmixed>>

\* Mutant: a failed page call stores the pages fetched so far as the snapshot.
ReadCallErrCommit ==
  /\ rcalls' = <<>>
  /\ rdirty' = FALSE
  /\ UNCHANGED rleft
  /\ rret' = ErrRet(ErrRetrieval)
  /\ params' = rparams
  /\ rparams' = <<>>
  /\ rresult' = NoResult
  /\ rpc' = "idle"

\* Lines 97-101: a page call fails; Read returns (nil, err).  The local
\* params is dropped and ps.params is not assigned.
ReadCallErr ==
  /\ rcalls' = <<>>
  /\ rdirty' = FALSE
  /\ UNCHANGED rleft
  /\ rret' = ErrRet(ErrRetrieval)
  /\ rparams' = <<>>
  /\ rresult' = NoResult
  /\ rpc' = "idle"
  /\ UNCHANGED params

\* Line 97: a page call succeeds; the response is held in result.
ReadCallOk ==
  /\ input.Path # NilPath
  /\ LET r == FetchPage(store, input.NextToken) IN
       /\ rresult' = r
       /\ rcalls' = Append(rcalls, [sent |-> input.NextToken, ret |-> r.NextToken, ok |-> TRUE])
  /\ rpc' = "append"
  /\ UNCHANGED <<params, rparams, rret, rdirty, rleft>>

ReadCall ==
  /\ Running
  /\ rpc = "call"
  /\ Len(rcalls) < MaxCalls
  /\ (ReadCallErr \/ ReadCallOk)
  /\ UNCHANGED <<config, cb, store, input, bret, watchVars, wmixed, lastSnap>>

\* Mutant: the loop is left after the first page, whatever its token.
ReadAppendOnce ==
  /\ Running
  /\ rpc = "append"
  /\ rparams' = rparams \o rresult.Parameters
  /\ input' = [input EXCEPT !.NextToken = rresult.NextToken]
  /\ rpc' = "finish"
  /\ UNCHANGED <<config, cb, store, params, rresult, rcalls, rret, rdirty, rleft,
                 bret, watchVars, wmixed, lastSnap>>

\* Lines 103-109: append the page, store the cursor, leave the loop on nil.
ReadAppend ==
  /\ Running
  /\ rpc = "append"
  /\ rparams' = rparams \o rresult.Parameters
  /\ input' = [input EXCEPT !.NextToken = rresult.NextToken]
  /\ rpc' = IF rresult.NextToken = NoToken THEN "finish" ELSE "call"
  /\ UNCHANGED <<config, cb, store, params, rresult, rcalls, rret, rdirty, rleft,
                 bret, watchVars, wmixed, lastSnap>>

\* Mutant: the snapshot is stored only when every key is non-empty.
ReadStoreOnSuccess ==
  params' = IF Materialize(cb, rparams, 1, <<>>).err = NoErr THEN rparams ELSE params

\* Line 113: ps.params = params, before the mapping is built.
ReadStore == params' = rparams

\* Lines 113-133: the snapshot is stored, then the mapping is built and
\* returned (or the empty-key error is).
ReadFinish ==
  /\ Running
  /\ rpc = "finish"
  /\ ReadStore
  /\ rret' = Materialize(cb, rparams, 1, <<>>)
  /\ rparams' = <<>>
  /\ rresult' = NoResult
  /\ rpc' = "idle"
  /\ rcalls' = <<>>
  /\ wmixed' = (wmixed \/ (wpc = "diff" /\ wi > 1))
  /\ rdirty' = FALSE
  /\ UNCHANGED rleft
  /\ UNCHANGED <<config, cb, store, input, bret, watchVars, lastSnap>>

\* ------------------------------------------- ReadBytes: lines 136-138
\* Mutant: ReadBytes returns an empty slice and no error.
ReadBytesEmpty ==
  /\ Running
  /\ rpc = "idle"
  /\ bret' = [called |-> TRUE, nilbytes |-> FALSE, err |-> NoErr]
  /\ UNCHANGED <<config, cb, store, input, params, rpc, rparams, rresult,
                 rcalls, rret, rdirty, rleft, watchVars, wmixed, lastSnap>>

\* Lines 136-138: return nil, errors.New(...).  The caller's goroutine is
\* not inside Read when it calls ReadBytes.
ReadBytes ==
  /\ Running
  /\ rpc = "idle"
  /\ bret' = [called |-> TRUE, nilbytes |-> TRUE, err |-> ErrReadBytes]
  /\ UNCHANGED <<config, cb, store, input, params, rpc, rparams, rresult,
                 rcalls, rret, rdirty, rleft, watchVars, wmixed, lastSnap>>

\* ------------------------------------------------ Watch: lines 140-190
\* Mutant: the inner loop compares the ARNs only, not the versions.
RECURSIVE InnerLoopAnyVersion(_, _, _)
InnerLoopAnyVersion(P, j, n) ==
  IF j > Len(P) THEN <<>>
  ELSE (IF P[j].ARN = n.ARN THEN <<n>> ELSE <<>>)
       \o InnerLoopAnyVersion(P, j + 1, n)

\* Lines 175-179: the inner loop over ps.params for one new record, from
\* record j on: the new record is appended once per stored record of the
\* same ARN and another version.
RECURSIVE InnerLoop(_, _, _)
InnerLoop(P, j, n) ==
  IF j > Len(P) THEN <<>>
  ELSE (IF P[j].ARN = n.ARN /\ n.Version # P[j].Version THEN <<n>> ELSE <<>>)
       \o InnerLoop(P, j + 1, n)

\* Lines 173-180: the whole update check of new snapshot N against P.
RECURSIVE UpdatedParams(_, _, _)
UpdatedParams(P, N, i) ==
  IF i > Len(N) THEN <<>> ELSE InnerLoop(P, 1, N[i]) \o UpdatedParams(P, N, i + 1)

\* cb(nil, err) and cb(updatedParams, nil).
ErrEvent(e) == [nil |-> TRUE, params |-> <<>>, err |-> e]
ChangeEvent(u) == [nil |-> FALSE, params |-> u, err |-> NoErr]

\* Lines 140-144, 189: Watch starts the goroutine and returns nil; the
\* goroutine starts the ticker.  time.NewTicker panics on an interval that
\* is not positive, and a panic of a goroutine ends the process.
Watch ==
  /\ wpc = "idle"
  /\ wpc' = IF config.WatchInterval > 0 THEN "wait" ELSE "panic"
  /\ rleft' = NoToken
  /\ UNCHANGED <<config, cb, store, input, params, readVars, rdirty, wparams,
                 wresult, wupdated, wi, wcalls, wmixed, cbLog, lastSnap>>

\* Mutant: a timer fire starts a tick also while the tick before is running.
TickOverlapping ==
  /\ wpc \in {"wait", "call", "append", "diff"}
  /\ wpc' = "call"
  /\ wparams' = <<>>
  /\ wupdated' = <<>>
  /\ wresult' = NoResult
  /\ wi' = 1
  /\ wcalls' = <<>>
  /\ cbLog' = <<>>
  /\ wmixed' = FALSE
  /\ lastSnap' = [lastSnap EXCEPT !.clean = (rpc = "idle")]
  /\ UNCHANGED <<config, cb, store, input, params, readVars, rdirty, rleft>>

\* Lines 147-151: the ticker fires; the tick's locals start empty.  The
\* goroutine receives from ticker.C only here, at the head of its loop.
Tick ==
  /\ wpc = "wait"
  /\ wpc' = "call"
  /\ wparams' = <<>>
  /\ wupdated' = <<>>
  /\ wresult' = NoResult
  /\ wi' = 1
  /\ wcalls' = <<>>
  /\ cbLog' = <<>>
  /\ wmixed' = FALSE
  /\ lastSnap' = [lastSnap EXCEPT !.clean = (rpc = "idle")]
  /\ UNCHANGED <<config, cb, store, input, params, readVars, rdirty, rleft>>

\* Mutant: a failed tick stores the pages it has fetched so far.
TickCallErrCommit ==
  /\ cbLog' = Append(cbLog, ErrEvent(ErrRetrieval))
  /\ wpc' = "wait"
  /\ wcalls' = <<>>
  /\ params' = wparams
  /\ wparams' = <<>>
  /\ wresult' = NoResult
  /\ lastSnap' = NoPrev
  /\ UNCHANGED <<wupdated, wi>>

\* Mutant: a failed page call ends the goroutine (return, not continue).
TickCallErrReturn ==
  /\ cbLog' = Append(cbLog, ErrEvent(ErrRetrieval))
  /\ wpc' = "done"
  /\ wcalls' = <<>>
  /\ wparams' = <<>>
  /\ wresult' = NoResult
  /\ lastSnap' = NoPrev
  /\ UNCHANGED <<params, wupdated, wi>>

\* Lines 157-161: a page call fails: cb(nil, err), then continue main.
TickCallErr ==
  /\ cbLog' = Append(cbLog, ErrEvent(ErrRetrieval))
  /\ wpc' = "wait"
  /\ wcalls' = <<>>
  /\ wparams' = <<>>
  /\ wresult' = NoResult
  /\ lastSnap' = NoPrev
  /\ UNCHANGED <<params, wupdated, wi>>

\* Line 155: a page call succeeds; the response is held in result.
TickCallOk ==
  /\ input.Path # NilPath
  /\ LET r == FetchPage(store, input.NextToken) IN
       /\ wresult' = r
       /\ wcalls' = Append(wcalls, [sent |-> input.NextToken, ret |-> r.NextToken, ok |-> TRUE])
  /\ wpc' = "append"
  /\ UNCHANGED <<params, wparams, wupdated, wi, cbLog, lastSnap>>

TickCall ==
  /\ wpc = "call"
  /\ Len(wcalls) < MaxCalls
  /\ (TickCallErr \/ TickCallOk)
  /\ UNCHANGED <<config, cb, store, input, readVars, rdirty, rleft, wmixed>>

\* Lines 163-169: append the page, store the cursor, leave the loop on nil.
TickAppend ==
  /\ wpc = "append"
  /\ wparams' = wparams \o wresult.Parameters
  /\ input' = [input EXCEPT !.NextToken = wresult.NextToken]
  /\ wpc' = IF wresult.NextToken = NoToken THEN "diff" ELSE "call"
  /\ UNCHANGED <<config, cb, store, params, readVars, rdirty, rleft, wresult,
                 wupdated, wi, wcalls, wmixed, cbLog, lastSnap>>

\* Lines 173-180: one round of the outer loop, for the new record wi.
TickDiff ==
  /\ wpc = "diff"
  /\ wi <= Len(wparams)
  /\ wupdated' = wupdated \o InnerLoop(params, 1, wparams[wi])
  /\ wi' = wi + 1
  /\ UNCHANGED <<config, cb, store, input, params, readVars, rdirty, rleft, wpc,
                 wparams, wresult, wcalls, wmixed, cbLog, lastSnap>>

\* Mutant: the callback is invoked also with no updated record.
NotifyAlways == cbLog' = Append(cbLog, ChangeEvent(wupdated))

\* Lines 182-185: the callback gets the updated records when there are any.
Notify == cbLog' = IF Len(wupdated) > 0 THEN Append(cbLog, ChangeEvent(wupdated)) ELSE cbLog

\* Lines 181-186: the tick ends; ps.params is left as it was.
TickEnd ==
  /\ wpc = "diff"
  /\ wi > Len(wparams)
  /\ Notify
  /\ wpc' = "wait"
  /\ wparams' = <<>>
  /\ wupdated' = <<>>
  /\ wresult' = NoResult
  /\ wi' = 1
  /\ wcalls' = <<>>
  /\ wmixed' = FALSE
  /\ lastSnap' = IF lastSnap.clean
                  THEN [ok |-> TRUE, snap |-> wparams, clean |-> FALSE]
                  ELSE NoPrev
  /\ UNCHANGED <<config, cb, store, input, params, readVars, rdirty, rleft>>

\* --------------------------------------------------- the remote store
\* Another writer creates a parameter or overwrites it: its version grows.
PutParameter ==
  \E a \in ARNs :
    /\ store[a] < MaxVersion
    /\ store' = [store EXCEPT ![a] = @ + 1]
    /\ rdirty' = (rpc # "idle")
    /\ UNCHANGED rleft
    /\ UNCHANGED <<config, cb, input, params, readVars, watchVars, wmixed,
                   lastSnap>>

\* Another writer deletes a parameter.
DeleteParameter ==
  \E a \in ARNs :
    /\ a # Permanent
    /\ store[a] > 0
    /\ store' = [store EXCEPT ![a] = 0]
    /\ rdirty' = (rpc # "idle")
    /\ UNCHANGED rleft
    /\ UNCHANGED <<config, cb, input, params, readVars, watchVars, wmixed,
                   lastSnap>>

\* ------------------------------------------------------ specification
\* Lines 37-79: either constructor stores the Config and the transform and
\* leaves input and params zero-valued; the store holds anything.
Init ==
  /\ config \in Configs
  /\ cb \in Transforms
  /\ store \in {f \in [ARNs -> 0..MaxVersion] : f[Permanent] > 0}
  /\ input = ZeroInput
  /\ params = <<>>
  /\ rpc = "idle"
  /\ rparams = <<>>
  /\ rresult = NoResult
  /\ rcalls = <<>>
  /\ rret = NoRet
  /\ rdirty = FALSE
  /\ rleft = NoToken
  /\ bret = NoBytesRet
  /\ wpc = "idle"
  /\ wparams = <<>>
  /\ wresult = NoResult
  /\ wupdated = <<>>
  /\ wi = 1
  /\ wcalls = <<>>
  /\ wmixed = FALSE
  /\ cbLog = <<>>
  /\ lastSnap = NoPrev

Next ==
  \/ ReadStart
  \/ ReadCall
  \/ ReadAppend
  \/ ReadFinish
  \/ ReadBytes
  \/ Watch
  \/ Tick
  \/ TickCall
  \/ TickAppend
  \/ TickDiff
  \/ TickEnd
  \/ PutParameter
  \/ DeleteParameter

Spec == Init /\ [][Next]_vars

\* The ticker fires again whenever the loop waits for it.
LiveSpec == Spec /\ WF_vars(Tick)

\* Lines 113-133 in isolation: Read has left its pagination loop with any
\* sequence of up to MaxRecords records (a store of more parameters than
\* ARNs serves such a pass), under any key transform, and finishes.
FetchedRecords == {Param(a, v) : a \in ARNs, v \in 1..MaxVersion}
FetchedSnapshots == UNION {[1..n -> FetchedRecords] : n \in 0..MaxRecords}

KeyInit ==
  /\ config = Provider([Path |-> "/app", WithDecryption |-> TRUE,
                         Delimiter |-> "", WatchInterval |-> 0])
  /\ cb \in KeyTransforms
  /\ store = [a \in ARNs |-> 1]
  /\ input = Request(config)
  /\ params = <<>>
  /\ rpc = "finish"
  /\ rparams \in FetchedSnapshots
  /\ rresult = NoResult
  /\ rcalls = <<>>
  /\ rret = NoRet
  /\ rdirty = FALSE
  /\ rleft = NoToken
  /\ bret = NoBytesRet
  /\ wpc = "idle"
  /\ wparams = <<>>
  /\ wresult = NoResult
  /\ wupdated = <<>>
  /\ wi = 1
  /\ wcalls = <<>>
  /\ wmixed = FALSE
  /\ cbLog = <<>>
  /\ lastSnap = NoPrev

KeyNext == ReadFinish

KeySpec == KeyInit /\ [][KeyNext]_vars

\* -------------------------------------------------------------- claims
\* The change set the specification prescribes for previous snapshot P and
\* new snapshot N: the records of N whose ARN is in P with another version.
ChangeSet(P, N) ==
  SelectSeq(N, LAMBDA n : \E p \in Range(P) : p.ARN = n.ARN /\ p.Version # n.Version)
\* The callback invocations a tick with change set u is to make.
Expected(u) == IF u = <<>> THEN <<>> ELSE <<ChangeEvent(u)>>

\* The tick's update check has run over every new record.
DiffDone == wpc = "diff" /\ wi > Len(wparams)
\* The step that ends a successful tick, and the step that ends a Read
\* which fetched every page.
TickEnds == wpc = "diff" /\ wpc' = "wait"
ReadReturns == rpc = "finish" /\ rpc' = "idle"

\* C1: when a tick has compared its new snapshot N (wparams) with the stored
\* snapshot P (params, not replaced meanwhile), its change set holds exactly
\* the records of N whose ARN occurs in P with a different version: no
\* record whose ARN is absent from P, none of a parameter absent from N, and
\* nothing at all when P is empty.
C1_ChangeSetExact ==
  (DiffDone /\ ~wmixed) =>
    /\ \A r \in Range(wparams) \cup Range(wupdated) \cup Range(params) :
         (r \in Range(wupdated)) <=>
           (/\ r \in Range(wparams)
            /\ \E p \in Range(params) : p.ARN = r.ARN /\ p.Version # r.Version)
    /\ \A r \in Range(wupdated) : \E p \in Range(params) : p.ARN = r.ARN
    /\ \A r \in Range(wupdated) : \E n \in Range(wparams) : n.ARN = r.ARN
    /\ (params = <<>> => wupdated = <<>>)

\* A tick found one changed record next to a new one.
C1_Witness ==
  /\ DiffDone /\ ~wmixed
  /\ Len(wupdated) = 1 /\ Len(wparams) = 2 /\ Len(params) = 1

\* C2: a successful tick that follows a successful tick (no Read in between)
\* invokes the callback with exactly the change set of its snapshot against
\* the snapshot of the tick before, and not at all when that set is empty.
C2_DiffAgainstPreviousTick ==
  [][(TickEnds /\ lastSnap.ok /\ lastSnap.clean) =>
       cbLog' = Expected(ChangeSet(lastSnap.snap, wparams))]_vars

\* C3: after every successful full fetch, by Read or by a tick, the stored
\* snapshot is the snapshot just fetched.
C3_SnapshotReplaced ==
  [][/\ ReadReturns => params' = rparams
     /\ TickEnds => params' = wparams]_vars

\* C4: a successful tick that fetches the same snapshot as the successful
\* tick before it (no Read in between) does not invoke the callback.
C4_NoRepeatedReport ==
  [][(TickEnds /\ lastSnap.ok /\ lastSnap.clean /\ lastSnap.snap = wparams) =>
       cbLog' = <<>>]_vars

\* C5: the step of a tick in which a page call fails invokes the callback
\* once, with (nil, error), as the tick's only invocation; no update check
\* has run in that tick; and no step of the Watch goroutine changes the
\* stored snapshot.
C5_FailedTick ==
  [][/\ (wpc = "call" /\ wpc' = "wait") =>
          /\ cbLog = <<>>
          /\ cbLog' = <<ErrEvent(ErrRetrieval)>>
          /\ wupdated = <<>> /\ wupdated' = <<>>
          /\ params' = params
     /\ (wpc' # wpc \/ wi' # wi) => params' = params]_vars

\* A tick failed on its second page, with a snapshot stored.
C5_Witness ==
  /\ wpc = "wait"
  /\ cbLog = <<ErrEvent(ErrRetrieval)>>
  /\ input.NextToken # NoToken
  /\ params # <<>>

\* C6: a tick invokes the callback at most once, and every invocation is
\* either a non-empty change set with a nil error or a nil event with an
\* error.
C6_CallbackShape ==
  /\ Len(cbLog) <= 1
  /\ \A i \in 1..Len(cbLog) :
       \/ ~cbLog[i].nil /\ Len(cbLog[i].params) > 0 /\ cbLog[i].err = NoErr
       \/ cbLog[i].nil /\ cbLog[i].params = <<>> /\ cbLog[i].err # NoErr

\* A tick has delivered a change event.
C6_Witness == wpc = "wait" /\ Len(cbLog) = 1 /\ ~cbLog[1].nil

\* The last tick invoked the callback with an error.
TickFailed == Len(cbLog) = 1 /\ cbLog[1].nil

\* C7: a failed tick does not end the loop: once a tick has reported an
\* error, the ticker's next fire starts another tick.
C7_LoopSurvivesFailure == TickFailed ~> (wpc = "call" /\ cbLog = <<>>)

\* A tick failed and the loop waits for the ticker.
C7_Witness == TickFailed /\ wpc = "wait"

\* The page calls of a pass after the first send the token their
\* predecessor in the same pass returned.
Chained(calls) == \A i \in 2..Len(calls) : calls[i].sent = calls[i - 1].ret

\* C8: Read and a tick never interleave on the shared state: every page
\* call of a pass after its first sends the token returned by the call
\* before it in that pass, and the stored snapshot is not replaced while a
\* tick compares against it.
C8_PassesSerialized == Chained(rcalls) /\ Chained(wcalls) /\ ~wmixed

\* C9: with an empty configured path, Read returns the path error and a
\* nil mapping, is never in its fetch loop (no page call), and the stored
\* snapshot and the request stay as constructed.
C9_EmptyPath ==
  config.Path = "" =>
    /\ rpc = "idle" /\ rcalls = <<>>
    /\ rret \in {NoRet, ErrRet(ErrNoPath)}
    /\ params = <<>>
    /\ input = ZeroInput

\* Read was called with an empty path while the Watch loop ran.
C9_Witness == config.Path = "" /\ rret = ErrRet(ErrNoPath) /\ wpc = "wait"

\* C10: a Read that fetched every page with no Watch loop started has sent
\* no token on its first call and on each later call the token the call
\* before returned, has stopped at the first response without a token, has
\* made as many calls as the store has pages (when the store was not
\* written meanwhile), and, when it returns no error, returns a mapping
\* holding the transformed key of every record fetched.
C10_ReadPagination ==
  [][(ReadReturns /\ wpc = "idle") =>
       /\ Len(rcalls) >= 1
       /\ rcalls[1].sent = NoToken
       /\ \A i \in 2..Len(rcalls) :
            rcalls[i].sent = rcalls[i - 1].ret /\ rcalls[i - 1].ret # NoToken
       /\ rcalls[Len(rcalls)].ret = NoToken
       /\ ~rdirty => (Len(rcalls) = NumPages(store) /\ rparams = Listing(store))
       /\ rret'.err = NoErr =>
            /\ ~rret'.nilmap
            /\ \A i \in 1..Len(rparams) :
                 /\ Key(cb, rparams[i].Name) \in DOMAIN rret'.mp
                 /\ rret'.mp[Key(cb, rparams[i].Name)] = rparams[i].Value]_vars

\* A Read of a two-page store returned both keys, with no Watch loop.
C10_Witness ==
  /\ rpc = "idle" /\ wpc = "idle"
  /\ rret.called /\ rret.err = NoErr
  /\ Cardinality(DOMAIN rret.mp) = 2


\* A page call of Read fails: Read leaves the loop without a new response.
ReadCallFails == rpc = "call" /\ rpc' # "call" /\ Len(rcalls') <= Len(rcalls)

\* C11: when a page call of a Read fails, the Read ends at that call (no
\* retry, no further page call), returns that error with a nil mapping,
\* drops the records of the pages it had fetched, and leaves the last-known
\* snapshot as it was.
C11_ReadFetchError ==
  [][ReadCallFails =>
       /\ rpc' = "idle"
       /\ rret' = ErrRet(ErrRetrieval)
       /\ rparams' = <<>>
       /\ params' = params]_vars

\* A Read has failed on a later page (the cursor of its first page is left
\* in the request) while a snapshot of an earlier Read is stored.
C11_Witness ==
  /\ rpc = "idle"
  /\ wpc = "idle"
  /\ rret = ErrRet(ErrRetrieval)
  /\ input.NextToken # NoToken
  /\ params # <<>>


\* Some record of the snapshot ps has an empty key under transform t.
HasEmptyKey(t, ps) == \E i \in 1..Len(ps) : Key(t, ps[i].Name) = ""

\* C12: when the key transform yields the empty string for any record of
\* the fetched snapshot, whatever the record's position, Read returns the
\* empty-key error and a nil mapping, never a mapping of the other records.
C12_EmptyKeyAborts ==
  [][(ReadReturns /\ HasEmptyKey(cb, rparams)) => rret' = ErrRet(ErrEmptyKey)]_vars

\* Read has returned the empty-key error for a snapshot whose empty key is
\* neither at the first nor at the last record.
C12_Witness ==
  /\ rpc = "idle"
  /\ rret = ErrRet(ErrEmptyKey)
  /\ \E i \in 2..(Len(params) - 1) : Key(cb, params[i].Name) = ""
  /\ Key(cb, params[1].Name) # ""
  /\ Key(cb, params[Len(params)].Name) # ""


\* ReadBytes is called.
ReadBytesCalled == ~bret.called /\ bret'.called

\* C13: ReadBytes returns a nil byte slice and the 'unsupported' error in
\* every provider state (before or after a Read, with or without a Watch
\* loop running); it changes no provider state and issues no page call.
C13_ReadBytesUnsupported ==
  [][ReadBytesCalled =>
       /\ bret'.nilbytes
       /\ bret'.err = ErrReadBytes
       /\ UNCHANGED <<config, input, params, cb, store, rcalls, wcalls,
                      rparams, wparams, cbLog>>]_vars

\* ReadBytes has returned after a Read stored a snapshot, while a tick of
\* the Watch loop is fetching.
C13_Witness ==
  /\ bret.called
  /\ params # <<>>
  /\ wpc = "append"


\* The first page call of a Read's pass is issued, with no Watch loop started.
ReadFirstCall == rpc = "call" /\ rcalls = <<>> /\ rpc' # "call" /\ wpc = "idle"
\* The first page call of a tick's pass is issued, and no Read has run since
\* the tick began.
TickFirstCall == wpc = "call" /\ wcalls = <<>> /\ wpc' # "call" /\ lastSnap.clean

\* C14: every pagination pass, of a Read or of a tick, starts from the
\* beginning: its first page call carries no continuation token, also when
\* the pass before it was abandoned by a fetch error after it had received
\* a token.
C14_PassStartsAtFirstPage ==
  [][(ReadFirstCall \/ TickFirstCall) => input.NextToken = NoToken]_vars


\* A tick issues a page call.
TickPageCall == wpc = "call" /\ wpc' # "call"

\* C15: every page call a tick issues carries the configured path and the
\* configured decryption flag, whether or not Read was called (or got past
\* its path check) before Watch.
C15_TickRequestConfigured ==
  [][TickPageCall =>
       /\ input.Path = config.Path
       /\ input.WithDecryption = FlagPtr(config.WithDecryption)]_vars


\* The Watch loop stands at the start of a tick: before the tick's first
\* page call, with empty locals and no callback made.
AtTickStart(pc, calls, ps, log) == pc = "call" /\ calls = <<>> /\ ps = <<>> /\ log = <<>>

\* C16: within one Watch loop the ticks are strictly sequential: a tick
\* begins only when the loop waits for the timer, that is when the cycle of
\* the tick before (its fetch, its diff and its callback, or its error
\* path) is complete; no tick begins in the middle of another.
C16_TicksSequential ==
  [][AtTickStart(wpc', wcalls', wparams', cbLog') =>
       (wpc = "wait" \/ AtTickStart(wpc, wcalls, wparams, cbLog))]_vars

\* A tick has begun after the tick before it ran to its end.
C16_Witness ==
  /\ AtTickStart(wpc, wcalls, wparams, cbLog)
  /\ lastSnap.ok
  /\ rpc = "idle"


\* C17: whichever constructor built the provider, the configuration it
\* works with has a delimiter that is not empty ("/" when the caller passed
\* none) and a positive interval (600 seconds when the caller passed zero):
\* a Read that returned has split its keys on a delimiter that is not empty,
\* and a Watch that was called has started its ticker with a positive
\* interval.
C17_DefaultsApplied ==
  /\ rret.called => config.Delimiter # ""
  /\ wpc # "idle" => (config.WatchInterval > 0 /\ Running)


\* A Read returns an error.
ReadReturnsError == rret'.err # NoErr /\ (rret' # rret \/ rpc' # rpc)

\* C18 (as stated): a Read that returns any error leaves the last-known
\* snapshot as it was before the Read; an empty-key failure does not replace
\* the snapshot.
C18_ErrorKeepsSnapshot == [][ReadReturnsError => params' = params]_vars

\* C18 (amended): a Read that returns the path error or the error of a page
\* call leaves the last-known snapshot as it was; a Read that returns the
\* empty-key error has replaced the snapshot with the one it fetched.
C18_ErrorSnapshot ==
  [][ReadReturnsError =>
       IF rret'.err = ErrEmptyKey THEN params' = rparams ELSE params' = params]_vars

\* A Read has returned the empty-key error, and the stored snapshot holds
\* the record whose key is empty.
C18_Witness ==
  /\ rpc = "idle"
  /\ wpc = "idle"
  /\ rret = ErrRet(ErrEmptyKey)
  /\ HasEmptyKey(cb, params)


\* u picks records of n in n's order, each position of n at most once.
IsSubSeq(u, n) ==
  \E f \in [1..Len(u) -> 1..Len(n)] :
    /\ \A i \in 1..Len(u) : u[i] = n[f[i]]
    /\ \A i, j \in 1..Len(u) : i < j => f[i] < f[j]

\* C19: the change event of a tick holds each record of the new snapshot
\* at most once, in the new snapshot's order, so it is no longer than the
\* new snapshot, whatever stored snapshot the tick diffs against.
C19_EventWithinNewSnapshot ==
  (DiffDone /\ ~wmixed) => IsSubSeq(wupdated, wparams)


\* C20: with no Watch loop started, a Read starts from the first page
\* however the Reads before it ended; so a Read against a store that serves
\* every call and does not change meanwhile stores the store's whole
\* listing and returns the mapping built from it, as a Read on a fresh
\* provider does, also after a Read that failed in mid-pagination; and two
\* successful Reads in a row against an unchanged store return equal
\* mappings.
C20_ReadStartsOver ==
  [][/\ ReadFirstCall => input.NextToken = NoToken
     /\ (ReadReturns /\ wpc = "idle" /\ ~rdirty) =>
          /\ params' = Listing(store)
          /\ rret' = Materialize(cb, Listing(store), 1, <<>>)]_vars

\* With no Watch loop started, a Read that found the cursor of a Read that
\* failed in mid-pagination has returned the mapping of both parameters.
C20_Witness ==
  /\ rpc = "idle"
  /\ wpc = "idle"
  /\ rleft # NoToken
  /\ rret.called /\ rret.err = NoErr
  /\ params = Listing(store)
  /\ Len(params) = Len(ArnOrder)

=============================================================================
